---- MODULE Spec2Model ----
(***************************************************************************)
(* The two bot programs of the repository as one state machine.            *)
(*   main.py           the motivation bot (python-telegram-bot)            *)
(*   main_bot_code.py  the admin bot (aiogram, FSM states)                 *)
(* A run is a run of one of the two programs; `program` says which.        *)
(* A text is a sequence of tokens: a digit, a blank, a word or a whole     *)
(* menu label.  Identifiers are integers; str() and SQLite's column        *)
(* affinity convert between the two.                                       *)
(***************************************************************************)
EXTENDS Integers, Sequences, FiniteSets, TLC

\* ------------------------------------------------------------- bounds
MaxUser == 2
MaxMotivations == 1
MaxInflight == 1
MaxTime == 2
MaxBroadcasts == 2

UserIds == 1..MaxUser

\* The values datetime.now() takes.
Times == 1..MaxTime

\* ------------------------------------------------------ configuration
\* ADMIN_IDS of the environment: the static allowlist.
AdminIdsEnv == {1}
MOTIVATION_GROUP_ID == 0

\* ---------------------------------------------------------------- text
Digits == <<"0", "1", "2", "3", "4", "5", "6", "7", "8", "9">>

IsDigit(c) == \E i \in 1..Len(Digits) : Digits[i] = c

DigitVal(c) == (CHOOSE i \in 1..Len(Digits) : Digits[i] = c) - 1

RECURSIVE str(_)
\* Python's str() of a non-negative integer: canonical decimal digits.
str(n) == IF n < 10 THEN <<Digits[n + 1]>>
          ELSE str(n \div 10) \o <<Digits[(n % 10) + 1]>>

RECURSIVE lstrip(_)
lstrip(t) == IF t # << >> /\ Head(t) = " " THEN lstrip(Tail(t)) ELSE t

RECURSIVE rstrip(_)
rstrip(t) == IF t # << >> /\ t[Len(t)] = " "
             THEN rstrip(SubSeq(t, 1, Len(t) - 1)) ELSE t

\* Python's str.strip(): blanks removed at both ends.
strip(t) == rstrip(lstrip(t))

RECURSIVE DecimalValue(_)
DecimalValue(t) == IF t = << >> THEN 0
                   ELSE 10 * DecimalValue(SubSeq(t, 1, Len(t) - 1))
                        + DigitVal(t[Len(t)])

\* SQLite compares a TEXT parameter with an INTEGER column by applying
\* numeric affinity to the text: a text that reads as an integer literal
\* (blanks around it and leading zeros allowed) is compared as that
\* integer; any other text equals no integer.  -1 stands for "no integer".
SqliteInteger(t) ==
    LET s == strip(t)
    IN  IF s # << >> /\ \A i \in 1..Len(s) : IsDigit(s[i])
        THEN DecimalValue(s) ELSE -1

\* The rows of a table a query `WHERE user_id = ?` selects.
RowsWhereUserId(table, param) ==
    {id \in DOMAIN table : id = SqliteInteger(param)}

\* fetchall() of SELECT user_id ...: the rows in rowid order.
RECURSIVE fetchall(_)
fetchall(S) == IF S = {} THEN << >>
               ELSE LET m == CHOOSE x \in S : \A y \in S : x <= y
                    IN  <<m>> \o fetchall(S \ {m})

\* ------------------------------------------------------- menu labels
MainLabels == {<<"Yordam">>, <<"Biz haqimizda">>, <<"Kanal">>, <<"Guruh">>,
               <<"Veb sayt">>}

AdminPanelLabel == <<"Admin paneli">>
UserModeLabel == <<"Oddiy foydalanuvchi rejimi">>
AdminStatsLabel == <<"Admin statistikasi">>
AddAdminLabel == <<"Admin qo'shish">>
RemoveAdminLabel == <<"Adminlikdan olish">>
BroadcastLabel == <<"Barcha foydalanuvchilarga xabar">>
WebsiteLabel == <<"Saytga o'tish">>

BotLabels == {AdminPanelLabel, UserModeLabel, AdminStatsLabel, AddAdminLabel,
              RemoveAdminLabel, BroadcastLabel, WebsiteLabel}

StartCommand == <<"/start">>
StopCommand == <<"/stop">>

FreeText == <<"hello">>

\* The texts a user of the motivation bot types (commands are separate).
MainTexts == MainLabels \cup {FreeText}

\* The identifiers an admin may type: canonical, or with a leading zero,
\* or with a blank in front.
Numerals == UNION {{str(i), <<"0">> \o str(i), <<" ">> \o str(i)} :
                   i \in UserIds}

\* The texts a user of the admin bot sends with no state pending.
BotTexts == BotLabels \cup {StartCommand, StopCommand, FreeText}

\* The texts sent as the input of a pending state: an identifier, a free
\* text, a menu label or a command.
AdminIdInputs == Numerals \cup {FreeText, AddAdminLabel}
BroadcastInputs == {FreeText, BroadcastLabel, StartCommand}

\* ------------------------------------------------ chat-member statuses
ActiveStatuses == {"member", "administrator", "creator"}
Statuses == ActiveStatuses \cup {"restricted", "left", "kicked"}
\* What get_chat_member gives: a status, or it raises.
AllLookups == Statuses \cup {"error"}
\* One active status, one inactive status and the error: what the handlers
\* other than the membership re-check buttons draw from.
Lookups == {"member", "left", "error"}

VARIABLES
    program,      \* which of the two programs runs
    users,        \* the users table: user_id -> row
    motivations,  \* the motivations table: id (position) -> row
    ai_mode,      \* the users whose user_data['ai_mode'] is True
    state,        \* aiogram FSM storage: user -> state name
    inflight,     \* handlers suspended in a fan-out loop
    fanned_out,   \* the motivation ids the approve fan-out has sent to a user
    step,         \* the handler step just taken
    gate,         \* the membership lookups of that step
    out,          \* the messages that step sent
    completed     \* the fan-out that step completed, if any

vars == <<program, users, motivations, ai_mode, state, inflight, fanned_out,
          step, gate, out, completed>>

NoState == "None"
FsmStates == {"waiting_for_admin_id", "waiting_for_admin_action",
              "waiting_for_message"}

\* ------------------------------------------------------- observations
\* A message: its chat, what it says, the counters it reports (-1: none) and
\* the motivation id its buttons carry (0: none).
Msg(to, kind) == [to |-> to, kind |-> kind, sent |-> -1, failed |-> -1,
                  id |-> 0]
Report(to, kind, s, f) == [Msg(to, kind) EXCEPT !.sent = s, !.failed = f]
Keyboard(to, kind, id) == [Msg(to, kind) EXCEPT !.id = id]

Step(act, u, text) == [act |-> act, user |-> u, text |-> text, id |-> 0,
                       days |-> 0, ai |-> "none"]

NoGate == [called |-> FALSE, channel |-> "none", group |-> "none",
           result |-> FALSE]

\* The step's membership lookups: what the transport answers for the sender
\* at this event, whether the lookups were made, and what the check returned.
Gate(called, ch, gr, result) == [called |-> called, channel |-> ch,
                                 group |-> gr, result |-> result]

\* A handler suspended in its fan-out loop: the recipients it read, the
\* outcome of each send made so far, and the counters the handler keeps.
Task(handler, u, text, id, rcpts) ==
    [handler |-> handler, user |-> u, text |-> text, id |-> id, days |-> 0,
     users |-> rcpts, log |-> << >>, sent_count |-> 0, error_count |-> 0]

\* One pass of the loop body over the next recipient; ok is whether
\* send_message returned or raised.
SendTo(task, ok) ==
    [task EXCEPT !.log = Append(@, ok),
                 !.sent_count = IF ok THEN @ + 1 ELSE @,
                 !.error_count = IF ok THEN @ ELSE @ + 1]

NextRecipient(task) == task.users[Len(task.log) + 1]

LoopDone(task) == Len(task.log) = Len(task.users)

RemoveAt(s, k) == SubSeq(s, 1, k - 1) \o SubSeq(s, k + 1, Len(s))

\* ====================================================================
\* main.py
\* ====================================================================
ADMIN_IDS == AdminIdsEnv

\* check_membership with `or` for `and` in its return line.
check_membership_or(ch, gr) ==
    IF ch = "error" THEN FALSE
    ELSE IF gr = "error" THEN FALSE
    ELSE ch \in ActiveStatuses \/ gr \in ActiveStatuses

check_membership(ch, gr) ==
    IF ch = "error" THEN FALSE
    ELSE IF gr = "error" THEN FALSE
    ELSE ch \in ActiveStatuses /\ gr \in ActiveStatuses

\* SELECT user_id FROM users WHERE is_active = 1
ActiveUsers == fetchall({id \in DOMAIN users : users[id].is_active = 1})

\* python-telegram-bot handles one update at a time: an update is taken
\* only when no handler is still running.
MainIdle == program = "main" /\ inflight = << >>

start(u) ==
    /\ MainIdle
    /\ users' = [id \in DOMAIN users \cup {u} |->
                    IF id = u THEN [is_active |-> 1] ELSE users[id]]
    /\ \E ch \in Lookups, gr \in Lookups :
         LET member == check_membership(ch, gr)
         IN  /\ gate' = Gate(TRUE, ch, gr, member)
             /\ out' = {Msg(u, IF member THEN "welcome" ELSE "join_prompt")}
    /\ step' = Step("start", u, << >>)
    /\ completed' = << >>
    /\ UNCHANGED <<program, fanned_out, motivations, ai_mode, state, inflight>>

stop(u) ==
    /\ MainIdle
    /\ users' = [id \in DOMAIN users |->
                    IF id = u THEN [is_active |-> 0] ELSE users[id]]
    /\ step' = Step("stop", u, << >>)
    /\ gate' = NoGate
    /\ out' = {Msg(u, "stopped")}
    /\ completed' = << >>
    /\ UNCHANGED <<program, fanned_out, motivations, ai_mode, state, inflight>>

help_command(u) ==
    /\ MainIdle
    /\ step' = Step("help_command", u, << >>)
    /\ gate' = NoGate
    /\ out' = {Msg(u, "help")}
    /\ completed' = << >>
    /\ UNCHANGED <<program, fanned_out, users, motivations, ai_mode, state,
                   inflight>>

about(u) ==
    /\ MainIdle
    /\ step' = Step("about", u, << >>)
    /\ gate' = NoGate
    /\ out' = {Msg(u, "about")}
    /\ completed' = << >>
    /\ UNCHANGED <<program, fanned_out, users, motivations, ai_mode, state,
                   inflight>>

ai_command(u) ==
    /\ MainIdle
    /\ \E ch \in Lookups, gr \in Lookups :
         LET member == check_membership(ch, gr)
         IN  /\ gate' = Gate(TRUE, ch, gr, member)
             /\ IF ~member
                THEN /\ out' = {Msg(u, "join_prompt")}
                     /\ ai_mode' = ai_mode
                ELSE /\ out' = {Msg(u, "ai_started")}
                     /\ ai_mode' = ai_mode \cup {u}
    /\ step' = Step("ai_command", u, << >>)
    /\ completed' = << >>
    /\ UNCHANGED <<program, fanned_out, users, motivations, state, inflight>>

\* The reply of handle_message's menu branch for a menu label.
MenuReply(text) ==
    IF text = <<"Yordam">> THEN "help"
    ELSE IF text = <<"Biz haqimizda">> THEN "about"
    ELSE IF text = <<"Kanal">> THEN "channel_link"
    ELSE IF text = <<"Guruh">> THEN "group_link"
    ELSE "website_link"

\* handle_message's menu branch without its last elif.
IsMenuText_no_website(text) ==
    \/ text \in {<<"Yordam">>}
    \/ text \in {<<"Biz haqimizda">>}
    \/ text = <<"Kanal">>
    \/ text = <<"Guruh">>

IsMenuText(text) ==
    \/ text \in {<<"Yordam">>}
    \/ text \in {<<"Biz haqimizda">>}
    \/ text = <<"Kanal">>
    \/ text = <<"Guruh">>
    \/ text = <<"Veb sayt">>

\* The texts whose handling is a gated feature: the website link and any
\* text that is not a menu label.
GatedText(text) == text = <<"Veb sayt">> \/ ~IsMenuText(text)

\* INSERT INTO motivations (text, submitted_by, status), with a status that
\* is not 'pending'.
InsertMotivation_approved(text, user_id) ==
    Append(motivations,
           [text |-> text, submitted_by |-> user_id, status |-> "approved",
            schedule_date |-> "NULL"])

\* INSERT INTO motivations (text, submitted_by, status) VALUES (?, ?, 'pending')
InsertMotivation(text, user_id) ==
    Append(motivations,
           [text |-> text, submitted_by |-> user_id, status |-> "pending",
            schedule_date |-> "NULL"])

\* c.lastrowid after the INSERT: ids count up from 1 and no row is deleted.
lastrowid(table) == Len(table)

\* user_data['ai_mode'] cleared when the completion call raised.
AfterCompletion_clears(u, ok) == IF ok THEN ai_mode ELSE ai_mode \ {u}

\* user_data after the completion call (ok) or its except branch (~ok):
\* neither writes ai_mode.
AfterCompletion(u, ok) == ai_mode

\* An ai_mode test that never sends a text to the completion service.
InAiMode_never(u) == FALSE

\* if context.user_data.get('ai_mode'):
InAiMode(u) == u \in ai_mode

\* handle_message makes no membership lookup; for a gated text gate' records
\* what the transport would have answered for the sender (called = FALSE).
handle_message(u, text) ==
    /\ MainIdle
    /\ IF GatedText(text)
       THEN \E ch \in Lookups, gr \in Lookups :
                gate' = Gate(FALSE, ch, gr, FALSE)
       ELSE gate' = NoGate
    /\ completed' = << >>
    /\ IF IsMenuText(text)
       THEN /\ out' = {Msg(u, MenuReply(text))}
            /\ step' = Step("handle_message", u, text)
            /\ UNCHANGED motivations
            /\ UNCHANGED ai_mode
       ELSE IF InAiMode(u)
       THEN \E ok \in BOOLEAN :
            /\ out' = {Msg(u, IF ok THEN "ai_reply" ELSE "ai_error")}
            /\ step' = [Step("handle_message", u, text) EXCEPT
                          !.ai = IF ok THEN "ok" ELSE "error"]
            /\ ai_mode' = AfterCompletion(u, ok)
            /\ UNCHANGED motivations
       ELSE /\ Len(motivations) < MaxMotivations
            /\ motivations' = InsertMotivation(text, u)
            /\ LET motivation_id == lastrowid(motivations')
               IN  /\ out' = {Keyboard(MOTIVATION_GROUP_ID, "new_motivation",
                                       motivation_id),
                              Msg(u, "submitted")}
                   /\ step' = [Step("handle_message", u, text) EXCEPT
                                 !.id = motivation_id]
            /\ UNCHANGED ai_mode
    /\ UNCHANGED <<program, fanned_out, users, state, inflight>>

\* /broadcast: args is the text after the command, << >> when there is none.
broadcast(u, args) ==
    /\ MainIdle
    /\ step' = Step("broadcast", u, args)
    /\ gate' = NoGate
    /\ completed' = << >>
    /\ IF u \notin ADMIN_IDS
       THEN /\ out' = {Msg(u, "admins_only")}
            /\ UNCHANGED inflight
       ELSE IF args = << >>
       THEN /\ out' = {Msg(u, "usage")}
            /\ UNCHANGED inflight
       ELSE /\ out' = {}
            /\ inflight' = <<Task("broadcast", u, args, 0, ActiveUsers)>>
    /\ UNCHANGED <<program, fanned_out, users, motivations, ai_mode, state>>

\* One pass of broadcast's loop: send to the next user, log a failure.
broadcast_send ==
    /\ program = "main"
    /\ inflight # << >>
    /\ inflight[1].handler = "broadcast"
    /\ ~LoopDone(inflight[1])
    /\ \E ok \in BOOLEAN :
         /\ inflight' = <<SendTo(inflight[1], ok)>>
         /\ out' = IF ok THEN {Msg(NextRecipient(inflight[1]), "broadcast")}
                   ELSE {}
    /\ step' = Step("broadcast_send", inflight[1].user, inflight[1].text)
    /\ gate' = NoGate
    /\ completed' = << >>
    /\ UNCHANGED <<program, fanned_out, users, motivations, ai_mode, state>>

\* After the loop: the fixed reply "Xabar barcha foydalanuvchilarga yuborildi."
broadcast_end ==
    /\ program = "main"
    /\ inflight # << >>
    /\ inflight[1].handler = "broadcast"
    /\ LoopDone(inflight[1])
    /\ inflight' = << >>
    /\ out' = {Msg(inflight[1].user, "broadcast_done")}
    /\ step' = Step("broadcast_end", inflight[1].user, inflight[1].text)
    /\ gate' = NoGate
    /\ completed' = <<inflight[1]>>
    /\ UNCHANGED <<program, fanned_out, users, motivations, ai_mode, state>>

\* The callback tokens the bot's own keyboards carry: the membership
\* re-check, the moderation buttons of a stored motivation, the like buttons.
CallbackData ==
    {[kind |-> "check_membership", id |-> 0, days |-> 0],
     [kind |-> "like_daily", id |-> 0, days |-> 0]}
    \cup {[kind |-> k, id |-> i, days |-> 0] :
            k \in {"approve", "reject", "like"}, i \in 1..Len(motivations)}
    \cup {[kind |-> "schedule", id |-> i, days |-> n] :
            i \in 1..Len(motivations), n \in 1..3}

\* A callback handler suspended after `await query.answer()`: who pressed
\* and the parsed callback data.
Callback(handler, u, data) ==
    [Task(handler, u, <<data.kind>>, data.id, << >>) EXCEPT !.days = data.days]

CallbackStep(act, task) ==
    [Step(act, task.user, task.text) EXCEPT !.id = task.id, !.days = task.days]

\* UPDATE motivations SET status = ? WHERE id = ?
SetStatus(id, status) == [motivations EXCEPT ![id].status = status]

\* A handler that runs the approve / reject UPDATE before it answers the
\* callback query.
button_callback_answer_late(u, data) ==
    /\ MainIdle
    /\ data \in CallbackData
    /\ motivations' = IF data.kind \in {"approve", "reject"}
                      THEN SetStatus(data.id, IF data.kind = "approve"
                                               THEN "approved" ELSE "rejected")
                      ELSE motivations
    /\ inflight' = <<Callback("button_callback", u, data)>>
    /\ step' = CallbackStep("button_callback_answer", inflight'[1])
    /\ gate' = NoGate
    /\ out' = {Msg(u, "answer")}
    /\ completed' = << >>
    /\ UNCHANGED <<program, fanned_out, users, ai_mode, state>>

\* button_callback up to and including `await query.answer()`, its first
\* statement: the query is acknowledged and the handler is suspended.
button_callback_answer(u, data) ==
    /\ MainIdle
    /\ data \in CallbackData
    /\ inflight' = <<Callback("button_callback", u, data)>>
    /\ step' = CallbackStep("button_callback_answer", inflight'[1])
    /\ gate' = NoGate
    /\ out' = {Msg(u, "answer")}
    /\ completed' = << >>
    /\ UNCHANGED <<program, fanned_out, users, motivations, ai_mode, state>>

\* The rest of button_callback: the branch chosen by query.data.
button_callback ==
    /\ program = "main"
    /\ inflight # << >>
    /\ inflight[1].handler = "button_callback"
    /\ step' = CallbackStep("button_callback", inflight[1])
    /\ completed' = << >>
    /\ LET u == inflight[1].user
           kind == inflight[1].text[1]
           id == inflight[1].id
       IN
       IF kind = "check_membership"
       THEN \E ch \in AllLookups, gr \in AllLookups :
            LET member == check_membership(ch, gr)
            IN  /\ gate' = Gate(TRUE, ch, gr, member)
                /\ out' = IF member
                          THEN {Msg(u, "edit_congratulations"),
                                Msg(u, "welcome")}
                          ELSE {Msg(u, "edit_join_prompt")}
                /\ inflight' = << >>
                /\ UNCHANGED motivations
       ELSE IF kind = "approve"
       THEN /\ gate' = NoGate
            /\ motivations' = SetStatus(id, "approved")
            /\ out' = {}
            /\ inflight' = <<Task("approve", u, motivations[id].text, id,
                                  ActiveUsers)>>
       ELSE IF kind = "reject"
       THEN /\ gate' = NoGate
            /\ motivations' = SetStatus(id, "rejected")
            /\ out' = {Msg(MOTIVATION_GROUP_ID, "edit_rejected")}
            /\ inflight' = << >>
       ELSE IF kind = "schedule"
       \* timedelta is not imported: the branch raises NameError on its
       \* second line, before the UPDATE and the edit.
       THEN /\ gate' = NoGate
            /\ out' = {}
            /\ inflight' = << >>
            /\ UNCHANGED motivations
       ELSE IF kind = "like"
       THEN /\ gate' = NoGate
            /\ out' = {Msg(u, "edit_liked")}
            /\ inflight' = << >>
            /\ UNCHANGED motivations
       \* "like_daily" starts with "like_" too.
       ELSE /\ gate' = NoGate
            /\ out' = {Msg(u, "edit_liked")}
            /\ inflight' = << >>
            /\ UNCHANGED motivations
    /\ UNCHANGED <<program, fanned_out, users, ai_mode, state>>

\* One pass of the approve branch's loop.
approve_send ==
    /\ program = "main"
    /\ inflight # << >>
    /\ inflight[1].handler = "approve"
    /\ ~LoopDone(inflight[1])
    /\ \E ok \in BOOLEAN :
         /\ inflight' = <<SendTo(inflight[1], ok)>>
         /\ out' = IF ok THEN {Msg(NextRecipient(inflight[1]), "motivation")}
                   ELSE {}
         /\ fanned_out' = IF ok THEN fanned_out \cup {inflight[1].id}
                          ELSE fanned_out
    /\ step' = [Step("approve_send", inflight[1].user, inflight[1].text)
                  EXCEPT !.id = inflight[1].id]
    /\ gate' = NoGate
    /\ completed' = << >>
    /\ UNCHANGED <<program, users, motivations, ai_mode, state>>

\* After the loop the moderation message is edited.
approve_end ==
    /\ program = "main"
    /\ inflight # << >>
    /\ inflight[1].handler = "approve"
    /\ LoopDone(inflight[1])
    /\ inflight' = << >>
    /\ out' = {Msg(MOTIVATION_GROUP_ID, "edit_approved")}
    /\ step' = [Step("approve_end", inflight[1].user, inflight[1].text)
                  EXCEPT !.id = inflight[1].id]
    /\ gate' = NoGate
    /\ completed' = <<inflight[1]>>
    /\ UNCHANGED <<program, fanned_out, users, motivations, ai_mode, state>>

\* strftime('%Y-%m-%d') of datetime.now() plus d days.
strftime == [d \in 0..3 |-> <<"day+0", "day+1", "day+2", "day+3">>[d + 1]]

today == strftime[0]

\* SELECT id, text FROM motivations WHERE status = 'approved'
\*   AND (schedule_date IS NULL OR schedule_date = ?)
DailyPool(date) ==
    {i \in 1..Len(motivations) :
        /\ motivations[i].status = "approved"
        /\ motivations[i].schedule_date \in {"NULL", date}}

\* A daily function that marks what it selected as sent.
send_daily_motivation_marks(date, choice) ==
    [motivations |-> [i \in 1..Len(motivations) |->
                        IF i \in DailyPool(date)
                        THEN [motivations[i] EXCEPT !.status = "sent"]
                        ELSE motivations[i]],
     chats |-> << >>]

\* What a call of send_daily_motivation does with choice = random.choice's
\* pick from the pool: the table it leaves and the chats of the sends it
\* queues with run_once. It only reads the database. Each queued lambda
\* reads the loop variable `user` when it runs, after the loop has ended, so
\* every one of the sends goes to the last row read.
send_daily_motivation(date, choice) ==
    [motivations |-> motivations,
     chats |-> IF DailyPool(date) = {} THEN << >>
               ELSE [k \in 1..Len(ActiveUsers) |->
                       ActiveUsers[Len(ActiveUsers)]]]

\* The job registered with schedule: `lambda: send_daily_motivation`. Run,
\* it evaluates the name and returns the function object without calling
\* it: nothing is read, written or sent.
job == [motivations |-> motivations, chats |-> << >>]

\* run_scheduler's loop at the time the job is due ("08:00"):
\* schedule.run_pending() runs the job. The loop is its own asyncio task, so
\* it also runs while a handler is suspended.
run_scheduler ==
    /\ program = "main"
    /\ motivations' = job.motivations
    /\ out' = {Keyboard(job.chats[k], "daily_motivation", 0) :
                 k \in 1..Len(job.chats)}
    /\ step' = Step("run_scheduler", 0, << >>)
    /\ gate' = NoGate
    /\ completed' = << >>
    /\ UNCHANGED <<program, fanned_out, users, ai_mode, state, inflight>>

MainNext ==
    \/ \E u \in UserIds : start(u)
    \/ \E u \in UserIds : stop(u)
    \/ \E u \in UserIds : help_command(u)
    \/ \E u \in UserIds : about(u)
    \/ \E u \in UserIds : ai_command(u)
    \/ \E u \in UserIds, text \in MainTexts : handle_message(u, text)
    \/ \E u \in UserIds, args \in {<< >>, FreeText} : broadcast(u, args)
    \/ broadcast_send
    \/ broadcast_end
    \/ \E u \in UserIds, data \in CallbackData : button_callback_answer(u, data)
    \/ button_callback
    \/ approve_send
    \/ approve_end
    \/ run_scheduler

\* ====================================================================
\* main_bot_code.py
\* ====================================================================
\* ADMIN_IDS here is the list of the environment value's pieces, as texts.
ADMIN_IDS_str == {str(i) : i \in AdminIdsEnv}

check_subscription(ch, gr) ==
    IF ch = "error" THEN FALSE
    ELSE IF gr = "error" THEN FALSE
    ELSE ch \in ActiveStatuses /\ gr \in ActiveStatuses

\* admin_required calling the handler whatever the test gives.
admin_required_open(u) == TRUE

\* admin_required testing only that the sender has a row, not its is_admin.
admin_required_registered(u) ==
    \/ str(u) \in ADMIN_IDS_str
    \/ RowsWhereUserId(users, str(u)) # {}

\* The admin_required decorator's test: the sender's identifier as text is
\* in ADMIN_IDS, or the sender's row has is_admin = 1.
admin_required(u) ==
    LET user_id == str(u)
        result == RowsWhereUserId(users, user_id)
    IN  \/ user_id \in ADMIN_IDS_str
        \/ \E id \in result : users[id].is_admin = 1

\* DELETE FROM users, then INSERT the sender's row.
save_user_fresh(u, current_time) ==
    [id \in {u} |-> [is_admin |-> 0, joined_date |-> current_time,
                     last_active |-> current_time]]

\* INSERT OR REPLACE the sender's row.
save_user_replace(u, current_time) ==
    [id \in DOMAIN users \cup {u} |->
        IF id = u THEN [is_admin |-> 0, joined_date |-> current_time,
                        last_active |-> current_time]
        ELSE users[id]]

\* The values datetime.now() can give at this call: the clock does not run
\* backwards, so none earlier than a time already stored.
Now ==
    {t \in Times : \A id \in DOMAIN users : users[id].last_active <= t}

\* INSERT OR IGNORE a row for the sender (is_admin defaults to 0, joined_date
\* and last_active are now); then UPDATE last_active of the sender's row,
\* new or old.
save_user(u, current_time) ==
    LET inserted ==
            [id \in DOMAIN users \cup {u} |->
                IF id \in DOMAIN users THEN users[id]
                ELSE [is_admin |-> 0, joined_date |-> current_time,
                      last_active |-> current_time]]
    IN  [inserted EXCEPT ![u].last_active = current_time]

\* UPDATE users SET is_admin = ? with no WHERE clause.
SetIsAdmin_all(param, flag) ==
    [id \in DOMAIN users |-> [users[id] EXCEPT !.is_admin = flag]]

\* UPDATE users SET is_admin = ? WHERE user_id = ?  (a text parameter)
SetIsAdmin(param, flag) ==
    [id \in DOMAIN users |->
        IF id \in RowsWhereUserId(users, param)
        THEN [users[id] EXCEPT !.is_admin = flag] ELSE users[id]]

\* aiogram's state filter: a handler registered without a state takes an
\* update only when the sender's state is None; a handler registered with
\* a state takes every text sent in that state.
Bot == program = "bot"
NoPending(u) == Bot /\ state[u] = NoState
Pending(u, s) == Bot /\ state[u] = s

send_welcome(u) ==
    /\ NoPending(u)
    /\ \E current_time \in Now : users' = save_user(u, current_time)
    /\ \E ch \in Lookups, gr \in Lookups :
         LET member == check_subscription(ch, gr)
         IN  /\ gate' = Gate(TRUE, ch, gr, member)
             /\ out' = {Msg(u, IF member THEN "welcome" ELSE "join_prompt")}
    /\ step' = Step("send_welcome", u, StartCommand)
    /\ completed' = << >>
    /\ UNCHANGED <<program, fanned_out, motivations, ai_mode, state, inflight>>

stop_command(u) ==
    /\ NoPending(u)
    /\ step' = Step("stop_command", u, StopCommand)
    /\ gate' = NoGate
    /\ out' = {Msg(u, "stopped")}
    /\ completed' = << >>
    /\ UNCHANGED <<program, fanned_out, users, motivations, ai_mode, state,
                   inflight>>

admin_panel(u) ==
    /\ NoPending(u)
    /\ step' = Step("admin_panel", u, AdminPanelLabel)
    /\ gate' = NoGate
    /\ out' = {Msg(u, IF admin_required(u) THEN "admin_keyboard"
                      ELSE "not_admin")}
    /\ completed' = << >>
    /\ UNCHANGED <<program, fanned_out, users, motivations, ai_mode, state,
                   inflight>>

user_mode(u) ==
    /\ NoPending(u)
    /\ step' = Step("user_mode", u, UserModeLabel)
    /\ gate' = NoGate
    /\ out' = {Msg(u, "main_keyboard")}
    /\ completed' = << >>
    /\ UNCHANGED <<program, fanned_out, users, motivations, ai_mode, state,
                   inflight>>

admin_stats(u) ==
    /\ NoPending(u)
    /\ step' = Step("admin_stats", u, AdminStatsLabel)
    /\ gate' = NoGate
    /\ out' = {Msg(u, IF admin_required(u) THEN "stats" ELSE "admins_only")}
    /\ completed' = << >>
    /\ UNCHANGED <<program, fanned_out, users, motivations, ai_mode, state,
                   inflight>>

\* The three menu handlers that enter a state, behind admin_required.
EnterState(u, act, label, s) ==
    /\ NoPending(u)
    /\ step' = Step(act, u, label)
    /\ gate' = NoGate
    /\ completed' = << >>
    /\ IF admin_required(u)
       THEN /\ state' = [state EXCEPT ![u] = s]
            /\ out' = {Msg(u, "enter_input")}
       ELSE /\ out' = {Msg(u, "admins_only")}
            /\ UNCHANGED state
    /\ UNCHANGED <<program, fanned_out, users, motivations, ai_mode, inflight>>

add_admin_start(u) ==
    EnterState(u, "add_admin_start", AddAdminLabel, "waiting_for_admin_id")

remove_admin_start(u) ==
    EnterState(u, "remove_admin_start", RemoveAdminLabel,
               "waiting_for_admin_action")

broadcast_start(u) ==
    EnterState(u, "broadcast_start", BroadcastLabel, "waiting_for_message")

add_admin_process(u, text) ==
    /\ Pending(u, "waiting_for_admin_id")
    /\ step' = Step("add_admin_process", u, text)
    /\ gate' = NoGate
    /\ completed' = << >>
    /\ IF ~admin_required(u)
       THEN /\ out' = {Msg(u, "admins_only")}
            /\ UNCHANGED <<users, state>>
       ELSE LET new_admin_id == strip(text)
            IN  IF RowsWhereUserId(users, new_admin_id) = {}
                THEN /\ out' = {Msg(u, "user_not_found")}
                     /\ state' = [state EXCEPT ![u] = NoState]
                     /\ UNCHANGED users
                ELSE /\ users' = SetIsAdmin(new_admin_id, 1)
                     /\ out' = {Msg(u, "admin_added")}
                     /\ state' = [state EXCEPT ![u] = NoState]
    /\ UNCHANGED <<program, fanned_out, motivations, ai_mode, inflight>>

remove_admin_process(u, text) ==
    /\ Pending(u, "waiting_for_admin_action")
    /\ step' = Step("remove_admin_process", u, text)
    /\ gate' = NoGate
    /\ completed' = << >>
    /\ IF ~admin_required(u)
       THEN /\ out' = {Msg(u, "admins_only")}
            /\ UNCHANGED <<users, state>>
       ELSE LET admin_id == strip(text)
            IN  IF str(u) = admin_id
                THEN /\ out' = {Msg(u, "cannot_remove_self")}
                     /\ state' = [state EXCEPT ![u] = NoState]
                     /\ UNCHANGED users
                ELSE IF admin_id \in ADMIN_IDS_str
                THEN /\ out' = {Msg(u, "cannot_remove_main_admin")}
                     /\ state' = [state EXCEPT ![u] = NoState]
                     /\ UNCHANGED users
                ELSE /\ users' = SetIsAdmin(admin_id, 0)
                     /\ out' = {Msg(u, "admin_removed")}
                     /\ state' = [state EXCEPT ![u] = NoState]
    /\ UNCHANGED <<program, fanned_out, motivations, ai_mode, inflight>>

\* broadcast_message up to its loop: the recipients are every row of users.
\* broadcast_message up to its loop, with at most cap handlers suspended at
\* a time.
broadcast_message_upto(u, text, cap) ==
    /\ Pending(u, "waiting_for_message")
    /\ step' = Step("broadcast_message", u, text)
    /\ gate' = NoGate
    /\ completed' = << >>
    /\ IF ~admin_required(u)
       THEN /\ out' = {Msg(u, "admins_only")}
            /\ UNCHANGED inflight
       ELSE /\ Len(inflight) < cap
            /\ out' = {Msg(u, "broadcast_started")}
            /\ inflight' = Append(inflight,
                   Task("broadcast_message", u, text, 0,
                        fetchall(DOMAIN users)))
    /\ UNCHANGED <<program, fanned_out, users, motivations, ai_mode, state>>

broadcast_message(u, text) == broadcast_message_upto(u, text, MaxInflight)

\* One pass of broadcast_message's loop, for the k-th suspended handler.
broadcast_message_send(k) ==
    /\ Bot
    /\ k \in 1..Len(inflight)
    /\ inflight[k].handler = "broadcast_message"
    /\ ~LoopDone(inflight[k])
    /\ \E ok \in BOOLEAN :
         /\ inflight' = [inflight EXCEPT ![k] = SendTo(@, ok)]
         /\ out' = IF ok THEN {Msg(NextRecipient(inflight[k]), "admin_message")}
                   ELSE {}
    /\ step' = Step("broadcast_message_send", inflight[k].user,
                    inflight[k].text)
    /\ gate' = NoGate
    /\ completed' = << >>
    /\ UNCHANGED <<program, fanned_out, users, motivations, ai_mode, state>>

\* After the loop: the report with both counters, then state.finish().
broadcast_message_end(k) ==
    /\ Bot
    /\ k \in 1..Len(inflight)
    /\ inflight[k].handler = "broadcast_message"
    /\ LoopDone(inflight[k])
    /\ inflight' = RemoveAt(inflight, k)
    /\ out' = {Report(inflight[k].user, "broadcast_report",
                      inflight[k].sent_count, inflight[k].error_count)}
    /\ state' = [state EXCEPT ![inflight[k].user] = NoState]
    /\ step' = Step("broadcast_message_end", inflight[k].user,
                    inflight[k].text)
    /\ gate' = NoGate
    /\ completed' = <<inflight[k]>>
    /\ UNCHANGED <<program, fanned_out, users, motivations, ai_mode>>

website_link(u) ==
    /\ NoPending(u)
    /\ \E ch \in Lookups, gr \in Lookups :
         LET member == check_subscription(ch, gr)
         IN  /\ gate' = Gate(TRUE, ch, gr, member)
             /\ out' = {Msg(u, IF member THEN "website_link"
                               ELSE "join_prompt")}
    /\ step' = Step("website_link", u, WebsiteLabel)
    /\ completed' = << >>
    /\ UNCHANGED <<program, fanned_out, users, motivations, ai_mode, state,
                   inflight>>

\* The callback data of the join prompt's button.
CheckSubscription == [kind |-> "check_subscription", id |-> 0, days |-> 0]

\* check_subscription_callback up to and including
\* `await bot.answer_callback_query(callback_query.id)`, its first statement.
check_subscription_callback_answer(u) ==
    /\ NoPending(u)
    /\ Len(inflight) < MaxInflight
    /\ inflight' = Append(inflight,
           Callback("check_subscription_callback", u, CheckSubscription))
    /\ step' = Step("check_subscription_callback_answer", u,
                    <<"check_subscription">>)
    /\ gate' = NoGate
    /\ out' = {Msg(u, "answer")}
    /\ completed' = << >>
    /\ UNCHANGED <<program, fanned_out, users, motivations, ai_mode, state>>

\* The rest of check_subscription_callback, for the k-th suspended handler.
check_subscription_callback(k) ==
    /\ Bot
    /\ k \in 1..Len(inflight)
    /\ inflight[k].handler = "check_subscription_callback"
    /\ \E ch \in AllLookups, gr \in AllLookups :
         LET member == check_subscription(ch, gr)
         IN  /\ gate' = Gate(TRUE, ch, gr, member)
             /\ out' = {Msg(inflight[k].user,
                            IF member THEN "subscribed" ELSE "not_subscribed")}
    /\ inflight' = RemoveAt(inflight, k)
    /\ step' = Step("check_subscription_callback", inflight[k].user,
                    <<"check_subscription">>)
    /\ completed' = << >>
    /\ UNCHANGED <<program, fanned_out, users, motivations, ai_mode, state>>

\* The texts no earlier handler takes when the sender has no state.
Unhandled(text) == text \notin BotLabels \cup {StartCommand, StopCommand}

process_message(u, text) ==
    /\ NoPending(u)
    /\ Unhandled(text)
    /\ \E current_time \in Now : users' = save_user(u, current_time)
    /\ completed' = << >>
    /\ \E ch \in Lookups, gr \in Lookups :
         LET member == check_subscription(ch, gr)
         IN  /\ gate' = Gate(TRUE, ch, gr, member)
             /\ IF ~member
                THEN /\ out' = {Msg(u, "join_prompt")}
                     /\ step' = Step("process_message", u, text)
                ELSE IF text \in BotLabels
                THEN /\ out' = {}
                     /\ step' = Step("process_message", u, text)
                ELSE \E ok \in BOOLEAN :
                     /\ out' = {Msg(u, IF ok THEN "ai_reply" ELSE "ai_error")}
                     /\ step' = [Step("process_message", u, text) EXCEPT
                                   !.ai = IF ok THEN "ok" ELSE "error"]
    /\ UNCHANGED <<program, fanned_out, motivations, ai_mode, state, inflight>>

BotNext ==
    \/ \E u \in UserIds : send_welcome(u)
    \/ \E u \in UserIds : stop_command(u)
    \/ \E u \in UserIds : admin_panel(u)
    \/ \E u \in UserIds : user_mode(u)
    \/ \E u \in UserIds : admin_stats(u)
    \/ \E u \in UserIds : add_admin_start(u)
    \/ \E u \in UserIds, text \in AdminIdInputs : add_admin_process(u, text)
    \/ \E u \in UserIds : remove_admin_start(u)
    \/ \E u \in UserIds, text \in AdminIdInputs : remove_admin_process(u, text)
    \/ \E u \in UserIds : broadcast_start(u)
    \/ \E u \in UserIds, text \in BroadcastInputs : broadcast_message(u, text)
    \/ \E k \in 1..MaxInflight : broadcast_message_send(k)
    \/ \E k \in 1..MaxInflight : broadcast_message_end(k)
    \/ \E u \in UserIds : website_link(u)
    \/ \E u \in UserIds : check_subscription_callback_answer(u)
    \/ \E k \in 1..MaxInflight : check_subscription_callback(k)
    \/ \E u \in UserIds, text \in BotTexts : process_message(u, text)

\* ====================================================================
Init ==
    /\ program \in {"main", "bot"}
    /\ users = [id \in {} |-> 0]
    /\ motivations = << >>
    /\ ai_mode = {}
    /\ state = [u \in UserIds |-> NoState]
    /\ inflight = << >>
    /\ fanned_out = {}
    /\ step = Step("init", 0, << >>)
    /\ gate = NoGate
    /\ out = {}
    /\ completed = << >>

Next == MainNext \/ BotNext

Spec == Init /\ [][Next]_vars

\* The broadcast flow of main_bot_code.py on its own (registration, entry
\* into waiting_for_message, the text, the loop and the report), with up to
\* MaxBroadcasts handlers suspended in the loop at a time.
BroadcastInit == Init /\ program = "bot"

BroadcastNext ==
    \/ \E u \in UserIds : send_welcome(u)
    \/ \E u \in UserIds : broadcast_start(u)
    \/ \E u \in UserIds, text \in BroadcastInputs :
          broadcast_message_upto(u, text, MaxBroadcasts)
    \/ \E k \in 1..MaxBroadcasts : broadcast_message_send(k)
    \/ \E k \in 1..MaxBroadcasts : broadcast_message_end(k)

SpecBroadcast == BroadcastInit /\ [][BroadcastNext]_vars

\* ====================================================================
\* The claims
\* ====================================================================
\* The steps that take an inbound update (the others continue a handler).
MainUpdateActs == {"start", "stop", "help_command", "about", "ai_command",
                   "handle_message", "broadcast", "button_callback"}
BotMessageActs == {"send_welcome", "stop_command", "admin_panel", "user_mode",
                   "admin_stats", "add_admin_start", "add_admin_process",
                   "remove_admin_start", "remove_admin_process",
                   "broadcast_start", "broadcast_message", "website_link",
                   "process_message"}

\* An admin in the claims' sense: in the static allowlist, or is_admin = 1
\* (main.py's users table has no is_admin column).
IsAdminUser(u) ==
    \/ u \in AdminIdsEnv
    \/ program = "bot" /\ u \in DOMAIN users /\ users[u].is_admin = 1

IsModeration(s) ==
    s.act = "button_callback"
    /\ s.text \in {<<"approve">>, <<"reject">>, <<"schedule">>}

\* C1: once a submission's status is approved or rejected, no later step
\* changes its status or its schedule_date.
C1_StatusChangesOnce ==
    [][\A i \in 1..Len(motivations) :
          motivations[i].status # "pending" =>
             /\ motivations'[i].status = motivations[i].status
             /\ motivations'[i].schedule_date = motivations[i].schedule_date
      ]_vars

\* C2: a submission's status changes only in an approve/reject/schedule
\* button-press sent by an admin; such a press by a non-admin changes no
\* status and starts no fan-out to users.
C2_OnlyAdminsModerate ==
    [][/\ (\E i \in 1..Len(motivations) :
              motivations'[i].status # motivations[i].status)
          => (IsModeration(step') /\ IsAdminUser(step'.user))
       /\ (IsModeration(step') /\ ~IsAdminUser(step'.user))
          => (motivations' = motivations /\ inflight' = << >>)
      ]_vars

AdminOnlyActs == {"admin_stats", "add_admin_start", "add_admin_process",
                  "remove_admin_start", "remove_admin_process",
                  "broadcast_start", "broadcast_message", "broadcast"}

\* C3: an admin-only action invoked by a user who is neither in the static
\* allowlist nor has is_admin = 1 gets the admins-only reply and nothing
\* else: no row of users changes, no state is entered, no fan-out starts,
\* nobody else is sent a message.
C3_NonAdminRejected ==
    [][(step'.act \in AdminOnlyActs /\ ~IsAdminUser(step'.user))
          => /\ out' = {Msg(step'.user, "admins_only")}
             /\ users' = users
             /\ state' = state
             /\ inflight' = inflight
             /\ motivations' = motivations
      ]_vars

\* C3's case: the input of waiting_for_admin_id, sent by a user who entered
\* the state as an admin and is one no longer, has just been refused.
C3_Witness ==
    /\ step.act = "add_admin_process"
    /\ ~IsAdminUser(step.user)
    /\ out = {Msg(step.user, "admins_only")}

\* C4: no remove-admin input clears the is_admin flag of the acting admin
\* or of an identifier in the static allowlist.
C4_NoSelfOrStaticDemotion ==
    [][step'.act = "remove_admin_process" =>
          \A id \in DOMAIN users :
             (users[id].is_admin = 1 /\ users'[id].is_admin = 0)
                => (id # step'.user /\ id \notin AdminIdsEnv)
      ]_vars

\* C5: the membership check gives true exactly when both lookups returned
\* and both statuses are member, administrator or creator; in every other
\* case, a raised lookup included, it gives false.
C5_GateFailsClosed ==
    gate.called =>
       /\ gate.result \in BOOLEAN
       /\ gate.result <=> (/\ gate.channel \in ActiveStatuses
                           /\ gate.group \in ActiveStatuses)

\* C5's case: one lookup succeeded with an active status, the other raised
\* (in either order), and the check gave false.
C5_Witness ==
    /\ gate.called
    /\ gate.channel = "administrator"
    /\ gate.group = "error"
    /\ ~gate.result

GatedActs == {"ai_command", "handle_message", "website_link",
              "process_message"}

\* C6: a gated event (AI entry, website link, free text) from a sender the
\* membership lookups do not show as an active member of both chats sets no
\* ai_mode, stores no submission, forwards nothing to the completion
\* service and answers with the join prompt alone.
C6_NoGatedEffectForNonMember ==
    [][(/\ step'.act \in GatedActs
        /\ gate'.channel # "none"
        /\ ~(gate'.channel \in ActiveStatuses /\ gate'.group \in ActiveStatuses))
          => /\ ai_mode' = ai_mode
             /\ motivations' = motivations
             /\ step'.ai = "none"
             /\ out' = {Msg(step'.user, "join_prompt")}
      ]_vars

\* The number of failed sends in a fan-out's log.
Failures(log) == Cardinality({i \in 1..Len(log) : ~log[i]})

\* C7: a completed broadcast has attempted one send per recipient, and the
\* admin is told sent = N - K and failed = K.
C7_BroadcastReportsCounts ==
    (completed # << >> /\ completed[1].handler \in {"broadcast",
                                                   "broadcast_message"})
       => LET t == completed[1]
              N == Len(t.users)
              K == Failures(t.log)
          IN  /\ Len(t.log) = N
              /\ \E m \in out : /\ m.to = t.user
                                /\ m.sent = N - K
                                /\ m.failed = K

\* C8: after stop a user's is_active is 0, and any other inbound message of
\* a user whose is_active is 0 sets it to 1.
C8_AnyMessageReactivates ==
    [][(/\ program = "main"
        /\ step'.act \in MainUpdateActs \ {"button_callback"}
        /\ step'.user \in DOMAIN users)
          => IF step'.act = "stop"
             THEN users'[step'.user].is_active = 0
             ELSE users[step'.user].is_active = 0
                     => users'[step'.user].is_active = 1
      ]_vars

\* C9: when the text a pending state waits for has been handled, the
\* sender's state is None: after add_admin_process and remove_admin_process
\* on every path, after a refused broadcast_message, and after the report
\* that ends an accepted one.
C9_StateClearedAfterInput ==
    [][(\/ step'.act \in {"add_admin_process", "remove_admin_process",
                          "broadcast_message_end"}
        \/ step'.act = "broadcast_message" /\ inflight' = inflight)
          => state'[step'.user] = NoState
      ]_vars

\* The handler bound to a pending state.
StateHandler(s) ==
    IF s = "waiting_for_admin_id" THEN "add_admin_process"
    ELSE IF s = "waiting_for_admin_action" THEN "remove_admin_process"
    ELSE "broadcast_message"

\* C10: a menu label sent while the sender has a pending state is taken by
\* that state's handler; a menu label sent with no pending state is neither
\* forwarded to the completion service nor stored as a submission.
C10_RoutingPriority ==
    [][(/\ step'.act \in MainUpdateActs \cup BotMessageActs
        /\ step'.text \in MainLabels \cup BotLabels)
          => IF state[step'.user] # NoState
             THEN step'.act = StateHandler(state[step'.user])
             ELSE /\ step'.ai = "none"
                  /\ motivations' = motivations
      ]_vars

\* C10's case: a menu label has just been consumed as the broadcast text of
\* a user in waiting_for_message.
C10_Witness ==
    /\ step.act = "broadcast_message"
    /\ step.text = BroadcastLabel
    /\ inflight # << >>

\* C11: in main.py a text that is no menu label, from a sender whose ai_mode
\* is not set, appends exactly one row to motivations, with status pending
\* and submitted_by the sender, leaves the older rows alone, and sends to
\* the moderation group a message whose buttons carry the new row's id.
C11_TextCreatesSubmission ==
    [][(/\ step'.act = "handle_message"
        /\ step'.text \notin MainLabels
        /\ step'.user \notin ai_mode)
          => /\ Len(motivations') = Len(motivations) + 1
             /\ SubSeq(motivations', 1, Len(motivations)) = motivations
             /\ motivations'[Len(motivations')].status = "pending"
             /\ motivations'[Len(motivations')].submitted_by = step'.user
             /\ motivations'[Len(motivations')].text = step'.text
             /\ \E m \in out' : /\ m.to = MOTIVATION_GROUP_ID
                                /\ m.kind = "new_motivation"
                                /\ m.id = Len(motivations')
      ]_vars

\* C11's case: the free text of user 2 has just been stored as submission 1.
C11_Witness ==
    /\ step.act = "handle_message"
    /\ step.text = FreeText
    /\ step.user = 2
    /\ step.user \notin ai_mode
    /\ Len(motivations) = 1
    /\ motivations[1].submitted_by = 2

\* C12: ai_mode never loses a user, whatever the event and whoever sends
\* it; a text that is no menu label from a user in ai_mode is forwarded to
\* the completion service, stores no submission, and when the service fails
\* the only reply is the error reply.
C12_AiModeSticky ==
    [][/\ ai_mode \subseteq ai_mode'
       /\ (/\ step'.act = "handle_message"
           /\ step'.text \notin MainLabels
           /\ step'.user \in ai_mode)
             => /\ step'.ai \in {"ok", "error"}
                /\ motivations' = motivations
                /\ step'.ai = "error" => out' = {Msg(step'.user, "ai_error")}
      ]_vars

\* C12's case: the completion service has just failed for a user in ai_mode,
\* who is still in ai_mode.
C12_Witness ==
    /\ step.act = "handle_message"
    /\ step.ai = "error"
    /\ step.user \in ai_mode
    /\ out = {Msg(step.user, "ai_error")}

\* The chats a step sent a message of the given kind to.
ChatsSent(msgs, kind) == {m.to : m \in {x \in msgs : x.kind = kind}}

\* C13: a daily run whose pool (status approved, schedule_date NULL or
\* today) is not empty delivers the daily message to every active user and
\* to nobody else; a daily run whose pool is empty sends nothing.
C13_DailyRunDelivers ==
    [][step'.act = "run_scheduler"
          => IF DailyPool(today) = {}
             THEN out' = {}
             ELSE /\ ChatsSent(out', "daily_motivation")
                        = {ActiveUsers[k] : k \in 1..Len(ActiveUsers)}
                  /\ \A m \in out' : m.kind = "daily_motivation"
      ]_vars

\* C14: a daily run leaves the motivations table as it was, so no row is
\* deleted and every row that was approved with no schedule_date still is;
\* and a call of send_daily_motivation, whatever the date and whatever it
\* picks from the pool, leaves the table as it was too.
C14_DailyRunReadsOnly ==
    [][/\ step'.act = "run_scheduler"
          => /\ Len(motivations') = Len(motivations)
             /\ \A i \in 1..Len(motivations) :
                   /\ motivations'[i].status = motivations[i].status
                   /\ motivations'[i].schedule_date
                         = motivations[i].schedule_date
                   /\ i \in DailyPool(today) =>
                         /\ motivations'[i].status = "approved"
                         /\ motivations'[i].schedule_date \in {"NULL", today}
       /\ \A d \in {today, strftime[1]} : \A choice \in DailyPool(d) :
             send_daily_motivation(d, choice).motivations = motivations
      ]_vars

\* C14's case: the scheduler has just run its job while an approved
\* submission with no schedule_date was in the pool and a user was active.
C14_Witness ==
    /\ step.act = "run_scheduler"
    /\ \E i \in DailyPool(today) : motivations[i].schedule_date = "NULL"
    /\ ActiveUsers # << >>

\* C15: a schedule press by an admin on a pending submission, with n days,
\* leaves it approved with schedule_date the current date plus n days, and
\* the moderation message is edited to say so.
C15_ScheduleApproves ==
    [][(/\ step'.act = "button_callback"
        /\ step'.text = <<"schedule">>
        /\ IsAdminUser(step'.user)
        /\ motivations[step'.id].status = "pending")
          => /\ motivations'[step'.id].status = "approved"
             /\ motivations'[step'.id].schedule_date = strftime[step'.days]
             /\ \E m \in out' : /\ m.to = MOTIVATION_GROUP_ID
                                /\ m.kind = "edit_scheduled"
      ]_vars

\* The recipient list read by the fan-out this step started, if it started
\* one: /broadcast and the approve branch in main.py, broadcast_message in
\* main_bot_code.py.
StartedFanout ==
    IF \/ step'.act \in {"broadcast", "button_callback"} /\ inflight' # << >>
       \/ step'.act = "broadcast_message" /\ Len(inflight') > Len(inflight)
    THEN {inflight'[Len(inflight')].users}
    ELSE {}

\* C16: the recipient list a fan-out reads holds no user whose is_active is
\* 0 at that moment, and never the user whose stop command was the event
\* handled just before the list was read.
C16_FanoutSkipsStopped ==
    [][\A rcpts \in StartedFanout : \A k \in 1..Len(rcpts) :
          /\ program = "main" => users[rcpts[k]].is_active = 1
          /\ ~(step.act \in {"stop", "stop_command"} /\ step.user = rcpts[k])
      ]_vars

AnswerActs == {"button_callback_answer", "check_subscription_callback_answer"}
CallbackActs == {"button_callback", "check_subscription_callback"}

\* C17: the step that acknowledges a callback query does nothing else (no
\* membership lookup, no write to users or motivations, no other message,
\* no fan-out), and the step that carries out the callback's action, for
\* every callback data, is taken only by a handler that has acknowledged
\* that query before, and does not acknowledge again.
C17_AckBeforeEffect ==
    [][/\ step'.act \in AnswerActs
          => /\ out' = {Msg(step'.user, "answer")}
             /\ gate' = NoGate
             /\ users' = users
             /\ motivations' = motivations
             /\ \A k \in 1..Len(inflight') :
                   inflight'[k] \in {inflight[j] : j \in 1..Len(inflight)}
                   \/ inflight'[k].handler \in CallbackActs
       /\ step'.act \in CallbackActs
          => /\ \E k \in 1..Len(inflight) :
                   /\ inflight[k].handler = step'.act
                   /\ inflight[k].user = step'.user
                   /\ inflight[k].text = step'.text
                   /\ inflight[k].id = step'.id
             /\ \A m \in out' : m.kind # "answer"
      ]_vars

\* C17's case: the approve branch has just set the status and read the
\* recipients of its fan-out, after its query was acknowledged.
C17_Witness ==
    /\ step.act = "button_callback"
    /\ step.text = <<"approve">>
    /\ motivations[step.id].status = "approved"
    /\ inflight # << >>
    /\ inflight[1].handler = "approve"
    /\ inflight[1].users # << >>

\* A broadcast or approve fan-out between its first and its last send.
MidFanout(task) ==
    /\ task.handler \in {"broadcast", "approve", "broadcast_message"}
    /\ 0 < Len(task.log)
    /\ Len(task.log) < Len(task.users)

\* C18: while a fan-out started by one user is between its first and its
\* last send, an event of a different user with no pending state (here
\* /help in main.py, /stop in main_bot_code.py) can be handled.
C18_FanoutDoesNotBlock ==
    \A k \in 1..Len(inflight) :
       MidFanout(inflight[k]) =>
          \A u \in UserIds \ {inflight[k].user} :
             state[u] = NoState
                => ENABLED (help_command(u) \/ stop_command(u))

\* The user ids an input names: its decimal numeral, also with a leading
\* zero or a leading space.
NamedIds(text) ==
    {i \in UserIds : text \in {str(i), <<"0">> \o str(i), <<" ">> \o str(i)}}

\* C19: when add_admin_process handles an admin's input, no row of users is
\* created or removed and the admin's state is cleared; an input that names
\* no existing row is answered with the not-found reply and changes no row;
\* an input that names an existing row sets that row's is_admin to 1 and
\* changes no other row.
C19_AddAdminInput ==
    [][(step'.act = "add_admin_process" /\ IsAdminUser(step'.user))
          => LET named == NamedIds(step'.text) \cap DOMAIN users
             IN  /\ DOMAIN users' = DOMAIN users
                 /\ state'[step'.user] = NoState
                 /\ IF named = {}
                    THEN /\ users' = users
                         /\ out' = {Msg(step'.user, "user_not_found")}
                    ELSE /\ \A id \in DOMAIN users :
                               users'[id] = IF id \in named
                                            THEN [users[id] EXCEPT
                                                    !.is_admin = 1]
                                            ELSE users[id]
                         /\ out' = {Msg(step'.user, "admin_added")}
      ]_vars

\* C19's case: admin 1 has just made user 2 an admin while row 1 kept its
\* flag 0.
C19_Witness ==
    /\ step.act = "add_admin_process"
    /\ step.user = 1
    /\ step.text = str(2)
    /\ DOMAIN users = {1, 2}
    /\ users[1].is_admin = 0
    /\ users[2].is_admin = 1
    /\ state[1] = NoState

\* C20: an approve press on a submission whose text an earlier approve
\* press has already sent to a user starts no second fan-out to users.
C20_ApproveFansOutOnce ==
    [][(/\ step'.act = "button_callback"
        /\ step'.text = <<"approve">>
        /\ step'.id \in fanned_out)
          => \A k \in 1..Len(inflight') :
                inflight'[k].handler = "approve" => inflight'[k].users = << >>
      ]_vars

\* C21: the users table is keyed by user_id (PRIMARY KEY in both programs),
\* so an identifier has at most one row; no step removes a row, and a step
\* adds no row but the sender's.
C21_UserRecordsKept ==
    [][/\ DOMAIN users \subseteq DOMAIN users'
       /\ DOMAIN users' \subseteq DOMAIN users \cup {step'.user}
      ]_vars

\* C21's case: a stop command has just been handled and both users still
\* have their row.
C21_Witness ==
    /\ step.act \in {"stop", "stop_command"}
    /\ DOMAIN users = UserIds

\* C22: save_user for a sender who already has a row (send_welcome,
\* process_message) leaves that row's is_admin and joined_date, and every
\* other row, as they were.
C22_SaveUserKeepsRow ==
    [][(/\ step'.act \in {"send_welcome", "process_message"}
        /\ step'.user \in DOMAIN users)
          => /\ DOMAIN users' = DOMAIN users
             /\ users'[step'.user].is_admin = users[step'.user].is_admin
             /\ users'[step'.user].joined_date = users[step'.user].joined_date
             /\ \A id \in DOMAIN users \ {step'.user} : users'[id] = users[id]
      ]_vars

\* C22's case: a user made admin through the add-admin flow has just sent
\* /start again, later than they joined, and is still admin.
C22_Witness ==
    /\ step.act = "send_welcome"
    /\ step.user \notin AdminIdsEnv
    /\ users[step.user].is_admin = 1
    /\ users[step.user].last_active > users[step.user].joined_date

\* C23: the input of a pending state, sent by a user who is no admin when
\* it is handled (they were one when they entered the state), changes no
\* is_admin flag, starts no broadcast and sends nothing to another chat.
C23_AuthAtConsumption ==
    [][(/\ step'.user \in UserIds
        /\ state[step'.user] # NoState
        /\ step'.act = StateHandler(state[step'.user])
        /\ ~IsAdminUser(step'.user))
          => /\ DOMAIN users' = DOMAIN users
             /\ \A id \in DOMAIN users :
                   users'[id].is_admin = users[id].is_admin
             /\ Len(inflight') = Len(inflight)
             /\ \A k \in 1..Len(inflight) : inflight'[k] = inflight[k]
             /\ \A m \in out' : m.to = step'.user
      ]_vars

\* C23's case: a user who entered waiting_for_message as an admin and has
\* been demoted since has just sent the broadcast text, and no fan-out is
\* in flight.
C23_Witness ==
    /\ step.act = "broadcast_message"
    /\ step.text = FreeText
    /\ step.user \in DOMAIN users
    /\ ~IsAdminUser(step.user)
    /\ state[step.user] = "waiting_for_message"
    /\ inflight = << >>

\* C24: in main.py no step appends a submission whose submitter is in
\* ai_mode, and every text that is no menu label from a user in ai_mode is
\* forwarded to the completion service.
C24_NoSubmissionInAiMode ==
    [][/\ Len(motivations') > Len(motivations)
          => motivations'[Len(motivations')].submitted_by \notin ai_mode
       /\ (/\ step'.act = "handle_message"
           /\ step'.user \in ai_mode
           /\ step'.text \notin MainLabels)
             => /\ step'.ai # "none"
                /\ Len(motivations') = Len(motivations)
      ]_vars

\* C24's case: user 2, in ai_mode, has just had a free text answered by the
\* completion service, while the only submission stored is user 1's.
C24_Witness ==
    /\ step.act = "handle_message"
    /\ step.user = 2
    /\ step.text = FreeText
    /\ step.ai = "ok"
    /\ ai_mode = {2}
    /\ Len(motivations) = 1
    /\ motivations[1].submitted_by = 1

\* C25: a text handled by broadcast_message starts a fan-out only when no
\* fan-out started by the same sender has made a send and not yet ended;
\* the sender's state is cleared only when a fan-out ends, so such a
\* fan-out was started from the entry into waiting_for_message that is
\* still open.
C25_OneBroadcastPerEntry ==
    [][(/\ step'.act = "broadcast_message"
        /\ Len(inflight') > Len(inflight))
          => ~\E k \in 1..Len(inflight) :
                 /\ inflight[k].handler = "broadcast_message"
                 /\ inflight[k].user = step'.user
                 /\ inflight[k].log # << >>
      ]_vars

====
